---------------------------- MODULE Spec2Model ----------------------------
(***************************************************************************)
(* A model of the invoice generator: the Invoice Display view              *)
(* (app/invoice/[id]/page.tsx: the fetch, the polling effect and the QR    *)
(* generation) and the proxy endpoint POST /api/create-invoice with the    *)
(* API client it delegates to.                                             *)
(*                                                                         *)
(* The external payment API is the environment: it holds the intent's      *)
(* status, answers each request with the status it has when it answers,    *)
(* and a request may also fail (non-2xx, or no response at all).           *)
(***************************************************************************)
EXTENDS Integers, Sequences, FiniteSets, Bags, TLC

(***************************************************************************)
(* Bounds of the model.                                                    *)
(***************************************************************************)
\* the most fetches and QR generations of one view that are outstanding at once
MaxInFlight == 2

(***************************************************************************)
(* Program constants.                                                      *)
(***************************************************************************)
\* setInterval(..., 5000)
PollIntervalMs == 5000

VARIABLES
    \* ---- the Invoice Display view ----
    mounted,      \* the component is mounted (FALSE after teardown)
    invoice,      \* useState<InvoiceData | null>(null)
    qrCodeUrl,    \* useState<string>('')
    loading,      \* useState(true)
    error,        \* useState('')
    timers,       \* the intervals set by setInterval and not yet cleared (their periods)
    requests,     \* bag of the fetches in flight: sent, or answered and not yet delivered
    qrJobs,       \* bag of the payment URLs whose QRCode.toDataURL call is pending
    prevStatus,   \* history: invoice?.status before the last setInvoice(data)
    \* ---- the external payment API ----
    apiStatus,    \* the status the API holds for the intent
    \* ---- the proxy endpoint POST /api/create-invoice ----
    env,          \* process.env: NEXT_PUBLIC_MERCHANT_WALLET, NEXT_PUBLIC_NETWORK
    pc,           \* where the handler is: "idle", "awaiting" (the upstream fetch), "done"
    body,         \* the body of the request being handled
    upstreamReq,  \* the POST sent to the external API for this request, if any
    upstreamRes,  \* what came back from the external API, if anything
    response,     \* what the handler returned
    \* ---- a call of the API client (SolPayClient) ----
    clientCall,   \* the method called, its arguments, the API's reply and how the call ended
    \* ---- the Invoice Compose Form ----
    lineItems,    \* useState<LineItem[]>([{ id: '1', description: '', quantity: 1, price: 0 }])
    clock,        \* Date.now()
    formLoading,  \* useState(false)
    formError,    \* useState('')
    formReq,      \* the request to /api/create-invoice that is in flight, if any
    formSent,     \* how many requests the last submission sent
    formRoute,    \* where the router is: the form, or the invoice page it pushed
    \* ---- the Status Lookup page ----
    lookupId,     \* useState('') intentId
    lookupLoading,\* useState(false)
    lookupError,  \* useState('')
    lookupGets,   \* the GETs the last submission issued: how many, and one in flight or not
    lookupRoute,  \* where the router is: the status page, or the invoice page it pushed
    \* ---- the explorer link and network badge of the Display view ----
    explorer,     \* the intent's x402_context.network and what is rendered for it
    \* ---- one invoice from its creation to its display ----
    journey       \* the network it was created for and the API base each step used

clientVars == <<clientCall>>
formVars == <<lineItems, clock, formLoading, formError, formReq, formSent, formRoute>>
lookupVars == <<lookupId, lookupLoading, lookupError, lookupGets, lookupRoute>>
explorerVars == <<explorer>>
journeyVars == <<journey>>
restVars == <<clientVars, formVars, lookupVars, explorerVars, journeyVars>>
displayVars == <<mounted, invoice, qrCodeUrl, loading, error, timers, requests, qrJobs, prevStatus>>
proxyVars == <<env, pc, body, upstreamReq, upstreamRes, response>>
vars == <<mounted, invoice, qrCodeUrl, loading, error, timers, requests, qrJobs, prevStatus, apiStatus,
          env, pc, body, upstreamReq, upstreamRes, response,
          clientCall,
          lineItems, clock, formLoading, formError, formReq, formSent, formRoute,
          lookupId, lookupLoading, lookupError, lookupGets, lookupRoute,
          explorer,
          journey>>

(***************************************************************************)
(* Values.                                                                 *)
(***************************************************************************)
\* the statuses the API may report; "processing" and "failed" stand for any
\* string other than the three the code names
PaidStatuses == {"succeeded", "completed"}
Statuses == {"pending", "processing", "failed"} \cup PaidStatuses

\* const apiBase = process.env.NEXT_PUBLIC_SOLPAY_API_BASE || 'https://dev.solpay.cash'
DisplayApiBase == "https://dev.solpay.cash"
IntentId == "pi_1"
\* a payment_url supplied by the API ("" models an absent payment_url)
ServerUrl == "https://dev.solpay.cash/checkout/pi_1"
\* `${apiBase}/pay/${intentId}`
FallbackUrl == "https://dev.solpay.cash/pay/pi_1"

\* invoice === null; its status reads as undefined through invoice?.status
NoInvoice == [status |-> "undefined", payment_url |-> ""]

\* a fetch that was issued and that the API has not answered yet
SentReq == [kind |-> "sent", code |-> 0, err |-> "", status |-> "", payment_url |-> ""]
\* a 2xx response carrying the intent
OkResp(s, u) == [kind |-> "http", code |-> 200, err |-> "", status |-> s, payment_url |-> u]
\* a non-2xx response; e is the error field of its JSON body ("" when the body has none)
ErrResp(c, e) == [kind |-> "http", code |-> c, err |-> e, status |-> "", payment_url |-> ""]
\* fetch() rejected: no response
NetFail == [kind |-> "network", code |-> 0, err |-> "", status |-> "", payment_url |-> ""]

ServerErrors == {"", "Payment intent not found"}
Failures == {ErrResp(404, e) : e \in ServerErrors} \cup {NetFail}

\* response.ok
ResponseOk(r) == r.kind = "http" /\ r.code >= 200 /\ r.code <= 299


\* errorData.error || `Failed to load invoice (${response.status})`, and the
\* message of the TypeError a rejected fetch() throws
FetchErrorMessage(r) ==
    IF r.kind = "network" THEN "Failed to fetch"
    ELSE IF r.err # "" THEN r.err
    ELSE IF r.code = 404 THEN "Failed to load invoice (404)"
    ELSE "Failed to load invoice"

\* if (!data.payment_url) data.payment_url = `${apiBase}/pay/${intentId}`
WithFallbackUrl(r) ==
    [status |-> r.status,
     payment_url |-> IF r.payment_url = "" THEN FallbackUrl ELSE r.payment_url]

\* QRCode.toDataURL(url): the image that encodes the literal url; '' is <<>>
NoQr == <<>>
QrDataUrl(u) == <<"data:image/png", u>>

\* const isPaid = invoice.status === 'succeeded' || invoice.status === 'completed'
isPaid(inv) == inv.status = "succeeded" \/ inv.status = "completed"

(***************************************************************************)
(* The polling effect, useEffect(..., [invoice?.status]).  React runs an   *)
(* effect's cleanup and then the effect again after each render in which   *)
(* a dependency changed, and the cleanup alone when the component          *)
(* unmounts; the render and its effects are one step of the model.         *)
(***************************************************************************)
SetInterval(t) == Append(t, PollIntervalMs)
ClearInterval(t) == IF Len(t) = 0 THEN t ELSE SubSeq(t, 1, Len(t) - 1)

\* the cleanup returned by the effect run for inv: () => clearInterval(interval)
PollCleanupNoClear(inv, t) == t
PollCleanup(inv, t) == IF inv.status = "pending" THEN ClearInterval(t) ELSE t

\* the effect's body for inv: if (invoice?.status === 'pending') setInterval(...)
PollEffectBodyNotPaid(inv, t) == IF ~isPaid(inv) /\ inv # NoInvoice THEN SetInterval(t) ELSE t
PollEffectBody(inv, t) == IF inv.status = "pending" THEN SetInterval(t) ELSE t

\* the effect over a render that replaces old by new
PollEffectNoCleanup(old, new, t) ==
    IF old.status = new.status THEN t
    ELSE PollEffectBody(new, t)
PollEffect(old, new, t) ==
    IF old.status = new.status THEN t
    ELSE PollEffectBody(new, PollCleanup(old, t))

\* the work of the view that is outstanding
Outstanding == BagCardinality(requests) + BagCardinality(qrJobs)

\* which screen the component renders
ViewState ==
    IF loading THEN "loading"
    ELSE IF error # "" \/ invoice = NoInvoice THEN "error"
    ELSE IF isPaid(invoice) THEN "displaying-paid"
    ELSE "displaying-pending"

(***************************************************************************)
(* The state after the component mounted: the first effect has called      *)
(* fetchInvoice(), the polling effect found no invoice and set no timer.   *)
(***************************************************************************)
InitDisplay ==
    /\ mounted = TRUE
    /\ invoice = NoInvoice
    /\ qrCodeUrl = NoQr
    /\ loading = TRUE
    /\ error = ""
    /\ timers = <<>>
    /\ requests = SetToBag({SentReq})
    /\ qrJobs = EmptyBag
    /\ prevStatus = "undefined"

InitApi == apiStatus = "pending"

\* the timers after one of them fired: setInterval repeats until it is cleared
AfterTickOneShot(t) == ClearInterval(t)
AfterTick(t) == t

\* the interval's callback: () => { fetchInvoice() }, up to the await of fetch()
Tick ==
    /\ Len(timers) > 0
    /\ Outstanding < MaxInFlight
    /\ requests' = requests (+) SetToBag({SentReq})
    /\ timers' = AfterTick(timers)
    /\ UNCHANGED <<mounted, invoice, qrCodeUrl, loading, error, qrJobs, prevStatus, apiStatus, proxyVars, restVars>>

\* the API answers a request with the status it holds now, or the request fails
ApiAnswer(resp) ==
    /\ BagIn(SentReq, requests)
    /\ requests' = (requests (-) SetToBag({SentReq})) (+) SetToBag({resp})
    /\ UNCHANGED <<mounted, invoice, qrCodeUrl, loading, error, timers, qrJobs, prevStatus, apiStatus, proxyVars, restVars>>

ApiAnswerOk == \E u \in {"", ServerUrl} : ApiAnswer(OkResp(apiStatus, u))
ApiAnswerFail == \E f \in Failures : ApiAnswer(f)

\* the API changes the intent's status: any status while the intent is not
\* paid; a paid intent stays paid (succeeded may still become completed)
ApiTransition ==
    /\ \E s \in Statuses \ {apiStatus} :
          /\ apiStatus = "succeeded" => s = "completed"
          /\ apiStatus # "completed"
          /\ apiStatus' = s
    /\ UNCHANGED <<displayVars, proxyVars, restVars>>

\* fetchInvoice resumes with a 2xx response: setInvoice(data), setLoading(false),
\* then the call of QRCode.toDataURL.  The setters of an unmounted component
\* do nothing.
FetchResumeOk ==
    \E r \in BagToSet(requests) :
        /\ r.kind # "sent"
        /\ ResponseOk(r)
        /\ requests' = requests (-) SetToBag({r})
        /\ qrJobs' = qrJobs (+) SetToBag({WithFallbackUrl(r).payment_url})
        /\ IF mounted
           THEN /\ invoice' = WithFallbackUrl(r)
                /\ loading' = FALSE
                /\ timers' = PollEffect(invoice, WithFallbackUrl(r), timers)
                /\ prevStatus' = invoice.status
           ELSE UNCHANGED <<invoice, loading, timers, prevStatus>>
        /\ UNCHANGED <<mounted, qrCodeUrl, error, apiStatus, proxyVars, restVars>>

\* fetchInvoice resumes with a non-2xx response or a rejected fetch: the catch
\* block, setError(err.message), setLoading(false)
FetchResumeFail ==
    \E r \in BagToSet(requests) :
        /\ r.kind # "sent"
        /\ ~ResponseOk(r)
        /\ requests' = requests (-) SetToBag({r})
        /\ IF mounted
           THEN /\ error' = FetchErrorMessage(r)
                /\ loading' = FALSE
           ELSE UNCHANGED <<error, loading>>
        /\ UNCHANGED <<mounted, invoice, qrCodeUrl, timers, qrJobs, prevStatus, apiStatus, proxyVars, restVars>>

\* QRCode.toDataURL resolves: setQrCodeUrl(qrCode)
QrResolve ==
    \E u \in BagToSet(qrJobs) :
        /\ qrJobs' = qrJobs (-) SetToBag({u})
        /\ qrCodeUrl' = IF mounted THEN QrDataUrl(u) ELSE qrCodeUrl
        /\ UNCHANGED <<mounted, invoice, loading, error, timers, requests, prevStatus, apiStatus, proxyVars, restVars>>

\* the error state after QRCode.toDataURL rejected: the inner catch logs the
\* failure (console.error) and sets nothing
AfterQrErrorOuterCatch(e) == "QR generation failed"
AfterQrError(e) == e

\* QRCode.toDataURL rejects: the inner catch logs and continues
QrReject ==
    \E u \in BagToSet(qrJobs) :
        /\ qrJobs' = qrJobs (-) SetToBag({u})
        /\ error' = AfterQrError(error)
        /\ UNCHANGED <<mounted, invoice, qrCodeUrl, loading, timers, requests, prevStatus, apiStatus, proxyVars, restVars>>

\* the view is torn down: React runs the cleanup of the polling effect
Unmount ==
    /\ mounted
    /\ mounted' = FALSE
    /\ timers' = PollCleanup(invoice, timers)
    /\ UNCHANGED <<invoice, qrCodeUrl, loading, error, requests, qrJobs, prevStatus, apiStatus, proxyVars, restVars>>

(***************************************************************************)
(* JavaScript values, as far as the proxy endpoint tells them apart: a     *)
(* number is the fraction n/d (d = 1 for an integer), a missing field is   *)
(* undefined.  A JSON body holds no NaN.                                   *)
(***************************************************************************)
JsVal(t, n, d, s) == [t |-> t, n |-> n, d |-> d, s |-> s]
Undefined == JsVal("undefined", 0, 1, "")
Null == JsVal("null", 0, 1, "")
Num(n) == JsVal("number", n, 1, "")
Frac(n, d) == JsVal("number", n, d, "")
Str(x) == JsVal("string", 0, 1, x)

\* ToBoolean(v): what !v and v || w test
Truthy(v) ==
    CASE v.t = "number" -> v.n # 0
      [] v.t = "string" -> v.s # ""
      [] OTHER -> FALSE

\* a || b
JsNullish(a, b) == IF a.t \in {"undefined", "null"} THEN b ELSE a
JsOr(a, b) == IF Truthy(a) THEN a ELSE b

(***************************************************************************)
(* The proxy endpoint and the API client it delegates to.                  *)
(***************************************************************************)
DevnetApiBase == "https://dev.solpay.cash"
MainnetApiBase == "https://www.solpay.cash"
ValidNetworks == {"solana:devnet", "solana:mainnet"}

NoBody == [shape |-> "none", amount |-> Undefined, asset |-> Undefined, network |-> Undefined]
\* a body that is no JSON: request.json() rejects
MalformedBody == [shape |-> "malformed", amount |-> Undefined, asset |-> Undefined, network |-> Undefined]
\* the JSON body null: destructuring it throws a TypeError
NullBody == [shape |-> "null", amount |-> Undefined, asset |-> Undefined, network |-> Undefined]
BodyObject(a, c, n) == [shape |-> "object", amount |-> a, asset |-> c, network |-> n]

NoIntent ==
    [id |-> "", payment_url |-> <<>>, status |-> "", amount |-> Undefined,
     amount_fees |-> Undefined, amount_merchant |-> Undefined]
NoUpstreamReq ==
    [apiBase |-> "", amount |-> Undefined, currency |-> Undefined,
     merchant_wallet |-> "", x_merchant_wallet |-> "", network |-> ""]
NoUpstreamRes ==
    [kind |-> "none", code |-> 0, json |-> "", err |-> "", msg |-> "", intent |-> NoIntent]
NoResult ==
    [intentId |-> "", paymentUrl |-> <<>>, status |-> "",
     amount |-> [requested |-> Undefined, total |-> Undefined,
                 fees |-> Undefined, net |-> Undefined]]
NoResponse == [kind |-> "none", status |-> 0, error |-> "", result |-> NoResult]

\* NextResponse.json(body, {status})
JsonError(status, message) ==
    [kind |-> "json", status |-> status, error |-> message, result |-> NoResult]
JsonResult(result) ==
    [kind |-> "json", status |-> 200, error |-> "", result |-> result]
\* an exception that leaves the handler: the framework answers, not the handler
Uncaught(message) ==
    [kind |-> "uncaught", status |-> 500, error |-> message, result |-> NoResult]

\* the value or the exception a call ends with
Returned(v) == [threw |-> FALSE, message |-> "", value |-> v]
Threw(m) == [threw |-> TRUE, message |-> m, value |-> NoResult]

\* the two validations of POST; "" when the body passes
ValidationErrorNetworkRequired(b) ==
    IF ~Truthy(b.amount) \/ ~Truthy(b.asset)
    THEN "Amount and asset are required"
    ELSE IF ~(b.network.t = "string" /\ b.network.s \in ValidNetworks)
    THEN "Invalid network. Must be solana:devnet or solana:mainnet"
    ELSE ""
ValidationError(b) ==
    IF ~Truthy(b.amount) \/ ~Truthy(b.asset)
    THEN "Amount and asset are required"
    ELSE IF Truthy(b.network) /\ ~(b.network.t = "string" /\ b.network.s \in ValidNetworks)
    THEN "Invalid network. Must be solana:devnet or solana:mainnet"
    ELSE ""

\* network || process.env.NEXT_PUBLIC_NETWORK || 'solana:devnet'
SelectedNetwork(network) ==
    IF Truthy(network) THEN network.s
    ELSE IF env.network # "" THEN env.network
    ELSE "solana:devnet"

\* the base URL getDefaultClient chooses (the two base URL variables are unset)
ApiBaseFor(selectedNetwork) ==
    IF selectedNetwork = "solana:mainnet" THEN MainnetApiBase ELSE DevnetApiBase

\* getDefaultClient(network): the client's configuration, or the configuration error
GetDefaultClientNoCheck(network) ==
    [threw |-> FALSE, message |-> "",
     apiBase |-> ApiBaseFor(SelectedNetwork(network)),
     merchantWallet |-> env.wallet,
     network |-> SelectedNetwork(network)]
GetDefaultClient(network) ==
    IF env.wallet = ""
    THEN [threw |-> TRUE,
          message |-> "NEXT_PUBLIC_MERCHANT_WALLET environment variable is not set",
          apiBase |-> "", merchantWallet |-> "", network |-> ""]
    ELSE [threw |-> FALSE, message |-> "",
          apiBase |-> ApiBaseFor(SelectedNetwork(network)),
          merchantWallet |-> env.wallet,
          network |-> SelectedNetwork(network)]

\* createPaymentIntent up to its fetch: the POST it sends
CreateRequest(client, b) ==
    [apiBase |-> client.apiBase,
     amount |-> b.amount,
     currency |-> b.asset,
     merchant_wallet |-> client.merchantWallet,
     x_merchant_wallet |-> client.merchantWallet,
     network |-> client.network]

\* `HTTP ${response.status}: ${response.statusText}`
HttpStatusMessage(code) ==
    IF code = 404 THEN "HTTP 404: Not Found" ELSE "HTTP 500: Internal Server Error"

\* createPaymentIntent from its fetch on: the PaymentResult, or the error thrown
CreatePaymentIntentResume(req, res) ==
    IF res.kind = "network" THEN Threw(res.msg)
    ELSE IF ~(res.code >= 200 /\ res.code <= 299)
    THEN IF res.json = "null"
         THEN Threw("Cannot read properties of null (reading 'error')")
         ELSE IF res.json = "invalid" THEN Threw("Unknown error")
         ELSE IF res.err # "" THEN Threw(res.err)
         ELSE Threw(HttpStatusMessage(res.code))
    ELSE IF res.json = "invalid" THEN Threw("Unexpected token < in JSON at position 0")
    ELSE IF res.json = "null" THEN Threw("Cannot read properties of null (reading 'id')")
    ELSE Returned(
           [intentId |-> res.intent.id,
            paymentUrl |-> IF res.intent.payment_url # <<>>
                           THEN res.intent.payment_url
                           ELSE <<req.apiBase, "/pay/", res.intent.id>>,
            status |-> res.intent.status,
            amount |-> [requested |-> req.amount,
                        total |-> JsOr(res.intent.amount, req.amount),
                        fees |-> JsOr(res.intent.amount_fees, Num(0)),
                        net |-> JsOr(res.intent.amount_merchant, req.amount)]])

\* the catch block of POST: { error: error.message || 'Failed to create invoice' }, 500
CatchRethrow(message) == Uncaught(message)
CatchNoFallback(message) == JsonError(500, message)
Catch(message) ==
    JsonError(500, IF message # "" THEN message ELSE "Failed to create invoice")

\* POST up to the await of the upstream fetch: it answers, or it has sent req
Answer(r) == [answered |-> TRUE, response |-> r, req |-> NoUpstreamReq]
Await(q) == [answered |-> FALSE, response |-> NoResponse, req |-> q]

PostStart(b) ==
    IF b.shape = "malformed"
    THEN Answer(Catch("Unexpected end of JSON input"))
    ELSE IF b.shape = "null"
    THEN Answer(Catch("Cannot destructure property 'amount' of 'body' as it is null."))
    ELSE IF ValidationError(b) # ""
    THEN Answer(JsonError(400, ValidationError(b)))
    ELSE IF GetDefaultClient(b.network).threw
    THEN Answer(Catch(GetDefaultClient(b.network).message))
    ELSE Await(CreateRequest(GetDefaultClient(b.network), b))

\* POST from the upstream fetch on
PostFinish(req, res) ==
    IF CreatePaymentIntentResume(req, res).threw
    THEN Catch(CreatePaymentIntentResume(req, res).message)
    ELSE JsonResult(CreatePaymentIntentResume(req, res).value)

(***************************************************************************)
(* The inputs of the proxy.                                                *)
(***************************************************************************)
Amounts == {Undefined, Null, Num(0), Num(-5), Num(1000000), Frac(3, 2), Str(""), Str("abc")}
Assets == {Undefined, Str(""), Str("USDC")}
Networks == {Undefined, Null, Str(""), Str("solana:devnet"), Str("solana:mainnet"),
             Str("solana:testnet"), Num(5)}
Bodies ==
    {MalformedBody, NullBody} \cup
    {BodyObject(a, c, n) : a \in Amounts, c \in Assets, n \in Networks}

Envs == [wallet : {"", "MerchantWallet111"}, network : {"", "solana:devnet", "solana:mainnet"}]

\* what the external API may send back for a creation
Intents ==
    {[id |-> "pi_1", payment_url |-> u, status |-> "pending", amount |-> a,
      amount_fees |-> f, amount_merchant |-> m] :
        u \in {<<>>, <<"https://pay.solpay.cash/", "pi_1">>},
        a \in {Undefined, Num(1000000)},
        f \in {Undefined, Num(0), Num(1000)},
        m \in {Undefined, Num(0), Num(999000)}}
UpstreamReplies ==
    {[kind |-> "http", code |-> 201, json |-> "object", err |-> "", msg |-> "", intent |-> i] :
        i \in Intents}
    \cup {[kind |-> "http", code |-> 201, json |-> j, err |-> "", msg |-> "", intent |-> NoIntent] :
        j \in {"invalid", "null"}}
    \cup {[kind |-> "http", code |-> c, json |-> "object", err |-> e, msg |-> "", intent |-> NoIntent] :
        c \in {404, 500}, e \in {"", "Invalid amount"}}
    \cup {[kind |-> "http", code |-> 500, json |-> j, err |-> "", msg |-> "", intent |-> NoIntent] :
        j \in {"invalid", "null"}}
    \cup {[kind |-> "network", code |-> 0, json |-> "", err |-> "", msg |-> m, intent |-> NoIntent] :
        m \in {"fetch failed", ""}}

InitProxyIdle ==
    /\ pc = "idle"
    /\ body = NoBody
    /\ upstreamReq = NoUpstreamReq
    /\ upstreamRes = NoUpstreamRes
    /\ response = NoResponse

\* a request arrives and POST runs up to its first wait on the external API
ProxyReceive ==
    /\ pc = "idle"
    /\ \E b \in Bodies :
          /\ body' = b
          /\ upstreamReq' = PostStart(b).req
          /\ response' = PostStart(b).response
          /\ pc' = IF PostStart(b).answered THEN "done" ELSE "awaiting"
    /\ UNCHANGED <<env, upstreamRes, displayVars, apiStatus, restVars>>

\* the external API answers (or the fetch fails) and POST runs to its end
ProxyUpstreamReply ==
    /\ pc = "awaiting"
    /\ \E res \in UpstreamReplies :
          /\ upstreamRes' = res
          /\ response' = PostFinish(upstreamReq, res)
    /\ pc' = "done"
    /\ UNCHANGED <<env, body, upstreamReq, displayVars, apiStatus, restVars>>

\* the next request; the handler keeps nothing between requests
ProxyReset ==
    /\ pc = "done"
    /\ pc' = "idle"
    /\ body' = NoBody
    /\ upstreamReq' = NoUpstreamReq
    /\ upstreamRes' = NoUpstreamRes
    /\ response' = NoResponse
    /\ UNCHANGED <<env, displayVars, apiStatus, restVars>>

(***************************************************************************)
(* A call of the API client.  The repository calls createPaymentIntent     *)
(* from the proxy only and calls getPaymentIntent nowhere; here both are   *)
(* called directly, on a client of either base URL.                        *)
(***************************************************************************)
NoCall ==
    [method |-> "none", phase |-> "idle", req |-> NoUpstreamReq, intentId |-> "",
     res |-> NoUpstreamRes, threw |-> FALSE, message |-> "",
     result |-> NoResult, intent |-> NoIntent]

\* new SolPayClient(config): the constructor stores the configuration as given
SolPayClient(apiBase, merchantWallet, network) ==
    [threw |-> FALSE, message |-> "", apiBase |-> apiBase,
     merchantWallet |-> merchantWallet, network |-> network]

\* the intent or the exception getPaymentIntent ends with
GotIntent(i) == [threw |-> FALSE, message |-> "", intent |-> i]
GetThrew(m) == [threw |-> TRUE, message |-> m, intent |-> NoIntent]

\* if (!response.ok) { errorData = await response.json().catch(() => ({ error: 'Unknown error' }));
\*                     throw new Error(errorData.error || `HTTP ${status}: ${statusText}`) }
NonOkMessageNoCatchFallback(res) ==
    IF res.json = "null" THEN "Cannot read properties of null (reading 'error')"
    ELSE IF res.json = "object" /\ res.err # "" THEN res.err
    ELSE HttpStatusMessage(res.code)
NonOkMessage(res) ==
    IF res.json = "null" THEN "Cannot read properties of null (reading 'error')"
    ELSE IF res.json = "invalid" THEN "Unknown error"
    ELSE IF res.err # "" THEN res.err
    ELSE HttpStatusMessage(res.code)

\* getPaymentIntent from its fetch on: the intent as the API sent it, or the error thrown
\* (the JSON body null is returned as it is: no field of it is read)
GetPaymentIntentResume(res) ==
    IF res.kind = "network" THEN GetThrew(res.msg)
    ELSE IF ~(res.code >= 200 /\ res.code <= 299) THEN GetThrew(NonOkMessage(res))
    ELSE IF res.json = "invalid" THEN GetThrew("Unexpected token < in JSON at position 0")
    ELSE GotIntent(res.intent)

ClientBases == {DevnetApiBase, MainnetApiBase}
ClientAmounts == {Num(1000000), Num(2500000)}
\* what the external API may send back for a GET: 200 where a creation has 201
GetReplies ==
    {[r EXCEPT !.code = 200] : r \in {x \in UpstreamReplies : x.code = 201}}
    \cup {x \in UpstreamReplies : x.code # 201}

InitClientIdle == clientCall = NoCall

\* createPaymentIntent({amount, asset: 'USDC'}) up to its fetch
ClientCreate ==
    /\ clientCall.phase = "idle"
    /\ \E base \in ClientBases, a \in ClientAmounts :
          clientCall' =
            [NoCall EXCEPT
               !.method = "create", !.phase = "awaiting",
               !.req = CreateRequest(SolPayClient(base, "MerchantWallet111", "solana:devnet"),
                                     BodyObject(a, Str("USDC"), Undefined))]
    /\ UNCHANGED <<displayVars, apiStatus, proxyVars, formVars, lookupVars, explorerVars, journeyVars>>

\* getPaymentIntent('pi_1') up to its fetch
ClientGet ==
    /\ clientCall.phase = "idle"
    /\ \E base \in ClientBases :
          clientCall' =
            [NoCall EXCEPT
               !.method = "get", !.phase = "awaiting", !.intentId = IntentId,
               !.req = [NoUpstreamReq EXCEPT !.apiBase = base]]
    /\ UNCHANGED <<displayVars, apiStatus, proxyVars, formVars, lookupVars, explorerVars, journeyVars>>

\* the external API answers (or the fetch fails) and createPaymentIntent runs to its end
ClientCreateReply ==
    /\ clientCall.phase = "awaiting"
    /\ clientCall.method = "create"
    /\ \E res \in UpstreamReplies :
          clientCall' =
            [clientCall EXCEPT
               !.phase = "done", !.res = res,
               !.threw = CreatePaymentIntentResume(clientCall.req, res).threw,
               !.message = CreatePaymentIntentResume(clientCall.req, res).message,
               !.result = CreatePaymentIntentResume(clientCall.req, res).value]
    /\ UNCHANGED <<displayVars, apiStatus, proxyVars, formVars, lookupVars, explorerVars, journeyVars>>

\* the external API answers (or the fetch fails) and getPaymentIntent runs to its end
ClientGetReply ==
    /\ clientCall.phase = "awaiting"
    /\ clientCall.method = "get"
    /\ \E res \in GetReplies :
          clientCall' =
            [clientCall EXCEPT
               !.phase = "done", !.res = res,
               !.threw = GetPaymentIntentResume(res).threw,
               !.message = GetPaymentIntentResume(res).message,
               !.intent = GetPaymentIntentResume(res).intent]
    /\ UNCHANGED <<displayVars, apiStatus, proxyVars, formVars, lookupVars, explorerVars, journeyVars>>

\* the next call; the client keeps nothing between calls
ClientReset ==
    /\ clientCall.phase = "done"
    /\ clientCall' = NoCall
    /\ UNCHANGED <<displayVars, apiStatus, proxyVars, formVars, lookupVars, explorerVars, journeyVars>>

(***************************************************************************)
(* The Invoice Compose Form.  A price is a whole number of half microunits *)
(* (1/PriceScale of a unit of the asset), so that sums and products are    *)
(* exact and a subtotal can fall halfway between two microunits; the       *)
(* rounding error of floating point is not modelled.  The handlers are     *)
(* modelled, not the browser's validation of the inputs.  The user edits   *)
(* the list between submissions, not while a request is in flight.         *)
(***************************************************************************)
MaxItems == 2
MaxClock == 3
MicroUnits == 1000000
PriceScale == 2 * MicroUnits

\* the id of the line item the form starts with: '1'
InitialId == 1
\* Date.now() when the page opens: any time after 1 January 1970 00:00:00.001
ClockStart == InitialId + 1

LineItem(id, description, quantity, price) ==
    [id |-> id, description |-> description, quantity |-> quantity, price |-> price]

NoFormReq ==
    [amount |-> 0, asset |-> "", network |-> "", invoice_number |-> <<>>, line_items |-> <<>>]

Descriptions == {"", "Design"}
\* parseInt(e.target.value) || 1: any integer but 0
Quantities == {1, -1}
\* parseFloat(e.target.value) || 0, in half microunits
Prices == {0, 1, 3}

\* the item addLineItem appends: { id: Date.now().toString(), description: '', quantity: 1, price: 0 }
NewLineItem(items, now) == LineItem(now, "", 1, 0)

\* lineItems.filter(item => item.id !== id)
WithoutId(items, id) == SelectSeq(items, LAMBDA item : item.id # id)

\* lineItems.map(item => item.id === id ? { ...item, [field]: value } : item)
WithField(items, id, field, value) ==
    [i \in 1..Len(items) |->
        IF items[i].id = id THEN [items[i] EXCEPT ![field] = value] ELSE items[i]]

\* lineItems.reduce((sum, item) => sum + (item.quantity * item.price), 0), in half microunits
RECURSIVE calculateSubtotal(_)
calculateSubtotal(items) ==
    IF items = <<>> THEN 0
    ELSE calculateSubtotal(SubSeq(items, 1, Len(items) - 1))
         + items[Len(items)].quantity * items[Len(items)].price

\* Math.round(n / d) for d > 0: the nearest integer, a half rounded up
MathRoundDown(n, d) == n \div d
MathRound(n, d) == (2 * n + d) \div (2 * d)

\* Math.round(subtotal * 1000000)
amountInMicroUnits(items) == MathRound(calculateSubtotal(items) * MicroUnits, PriceScale)

\* the first validation of handleSubmit
NoDescribedItem(items) ==
    Len(items) = 0 \/ \A i \in 1..Len(items) : items[i].description = ""

\* lineItems.filter(item => item.description)
SentLineItems(items) == SelectSeq(items, LAMBDA item : item.description # "")

\* the body of the POST to /api/create-invoice (customerEmail, notes and created_at left out)
CreateInvoiceRequest(items, now) ==
    [amount |-> amountInMicroUnits(items),
     asset |-> "USDC",
     network |-> "solana:devnet",
     invoice_number |-> <<"INV-", now>>,
     line_items |-> SentLineItems(items)]

\* handleSubmit up to its fetch: the error it shows, or the request it sends
SubmitErrorSubtotalFirst(items) ==
    IF calculateSubtotal(items) <= 0 THEN "Invoice total must be greater than 0"
    ELSE IF NoDescribedItem(items) THEN "Please add at least one line item"
    ELSE ""
SubmitError(items) ==
    IF NoDescribedItem(items) THEN "Please add at least one line item"
    ELSE IF calculateSubtotal(items) <= 0 THEN "Invoice total must be greater than 0"
    ELSE ""

InitForm ==
    /\ lineItems = <<LineItem(InitialId, "", 1, 0)>>
    /\ clock = ClockStart
    /\ formLoading = FALSE
    /\ formError = ""
    /\ formReq = NoFormReq
    /\ formSent = 0
    /\ formRoute = "/"

\* time passes
ClockTick ==
    /\ clock < MaxClock
    /\ clock' = clock + 1
    /\ UNCHANGED <<lineItems, formLoading, formError, formReq, formSent, formRoute>>
    /\ UNCHANGED <<displayVars, apiStatus, proxyVars, clientVars, lookupVars, explorerVars, journeyVars>>

\* "+ Add Item"
addLineItem ==
    /\ formRoute = "/"
    /\ ~formLoading
    /\ Len(lineItems) < MaxItems
    /\ lineItems' = Append(lineItems, NewLineItem(lineItems, clock))
    /\ UNCHANGED <<clock, formLoading, formError, formReq, formSent, formRoute>>
    /\ UNCHANGED <<displayVars, apiStatus, proxyVars, clientVars, lookupVars, explorerVars, journeyVars>>

\* the remove button of an item, rendered when lineItems.length > 1
removeLineItem ==
    /\ formRoute = "/"
    /\ ~formLoading
    /\ Len(lineItems) > 1
    /\ \E i \in 1..Len(lineItems) : lineItems' = WithoutId(lineItems, lineItems[i].id)
    /\ UNCHANGED <<clock, formLoading, formError, formReq, formSent, formRoute>>
    /\ UNCHANGED <<displayVars, apiStatus, proxyVars, clientVars, lookupVars, explorerVars, journeyVars>>

\* a change of one input of an item
updateLineItem ==
    /\ formRoute = "/"
    /\ ~formLoading
    /\ \E i \in 1..Len(lineItems) :
          \/ \E v \in Descriptions :
                lineItems' = WithField(lineItems, lineItems[i].id, "description", v)
          \/ \E v \in Quantities :
                lineItems' = WithField(lineItems, lineItems[i].id, "quantity", v)
          \/ \E v \in Prices :
                lineItems' = WithField(lineItems, lineItems[i].id, "price", v)
    /\ UNCHANGED <<clock, formLoading, formError, formReq, formSent, formRoute>>
    /\ UNCHANGED <<displayVars, apiStatus, proxyVars, clientVars, lookupVars, explorerVars, journeyVars>>

\* the submit button (disabled while loading): handleSubmit up to its fetch
handleSubmit ==
    /\ formRoute = "/"
    /\ ~formLoading
    /\ formError' = SubmitError(lineItems)
    /\ formLoading' = (SubmitError(lineItems) = "")
    /\ formReq' = IF SubmitError(lineItems) = ""
                  THEN CreateInvoiceRequest(lineItems, clock) ELSE NoFormReq
    /\ formSent' = IF SubmitError(lineItems) = "" THEN 1 ELSE 0
    /\ UNCHANGED <<lineItems, clock, formRoute>>
    /\ UNCHANGED <<displayVars, apiStatus, proxyVars, clientVars, lookupVars, explorerVars, journeyVars>>

\* the proxy answers 2xx: router.push(`/invoice/${data.intentId}`)
FormResponseOk ==
    /\ formRoute = "/"
    /\ formLoading
    /\ formRoute' = "/invoice/pi_1"
    /\ formReq' = NoFormReq
    /\ UNCHANGED <<lineItems, clock, formLoading, formError, formSent>>
    /\ UNCHANGED <<displayVars, apiStatus, proxyVars, clientVars, lookupVars, explorerVars, journeyVars>>

\* the proxy answers non-2xx, or the fetch fails: the catch block shows the message
FormResponseFail ==
    /\ formRoute = "/"
    /\ formLoading
    /\ \E m \in {"Amount and asset are required", "Failed to create invoice", "fetch failed"} :
          formError' = m
    /\ formLoading' = FALSE
    /\ formReq' = NoFormReq
    /\ UNCHANGED <<lineItems, clock, formSent, formRoute>>
    /\ UNCHANGED <<displayVars, apiStatus, proxyVars, clientVars, lookupVars, explorerVars, journeyVars>>

(***************************************************************************)
(* The Status Lookup page.  An identifier is the sequence of its           *)
(* characters.                                                             *)
(***************************************************************************)
StatusRoute == <<"/status">>
InvoiceRoute(id) == <<"/invoice/", id>>
NoGets == [count |-> 0, pending |-> FALSE, id |-> <<>>, code |-> 0]

\* String.prototype.trim, on the space character
RECURSIVE Trim(_)
Trim(s) ==
    IF s = <<>> THEN s
    ELSE IF Head(s) = " " THEN Trim(Tail(s))
    ELSE IF s[Len(s)] = " " THEN Trim(SubSeq(s, 1, Len(s) - 1))
    ELSE s

\* intentId.startsWith('pi_')
StartsWithPi(s) == Len(s) >= 3 /\ SubSeq(s, 1, 3) = <<"p", "i", "_">>

\* what the user may type or paste into the field
TypedIds ==
    {<<>>, <<" ">>, <<"a", "b", "c", "1", "2", "3">>, <<"p", "i">>, <<"p", "i", "_">>,
     <<"p", "i", "_", "1">>, <<" ", "p", "i", "_", "1", " ">>, <<"p", "i", "_", "2">>,
     <<"P", "I", "_", "1">>, <<"x", "p", "i", "_", "1">>, <<"p", " ", "i", "_">>}

\* the status the pre-check GET may come back with
LookupCodes == {200, 204, 301, 404, 500}

InitLookup ==
    /\ lookupId = <<>>
    /\ lookupLoading = FALSE
    /\ lookupError = ""
    /\ lookupGets = NoGets
    /\ lookupRoute = StatusRoute

\* onChange of the field: setIntentId(e.target.value.trim())
LookupType ==
    /\ lookupRoute = StatusRoute
    /\ \E typed \in TypedIds : lookupId' = Trim(typed)
    /\ UNCHANGED <<lookupLoading, lookupError, lookupGets, lookupRoute>>
    /\ UNCHANGED <<displayVars, apiStatus, proxyVars, clientVars, formVars, explorerVars, journeyVars>>

\* the error handleSubmit throws before any fetch; "" when the identifier passes
LookupPrefixErrorNone(id) == ""
LookupPrefixError(id) ==
    IF ~StartsWithPi(id) THEN "Invalid payment intent ID. It should start with \"pi_\"" ELSE ""

\* the submit button (disabled while loading): handleSubmit up to its fetch
LookupSubmit ==
    /\ lookupRoute = StatusRoute
    /\ ~lookupLoading
    /\ lookupError' = LookupPrefixError(lookupId)
    /\ lookupLoading' = (LookupPrefixError(lookupId) = "")
    /\ lookupGets' = IF LookupPrefixError(lookupId) = ""
                     THEN [count |-> 1, pending |-> TRUE, id |-> lookupId, code |-> 0]
                     ELSE NoGets
    /\ UNCHANGED <<lookupId, lookupRoute>>
    /\ UNCHANGED <<displayVars, apiStatus, proxyVars, clientVars, formVars, explorerVars, journeyVars>>

\* response.ok
LookupOk(code) == code >= 200 /\ code <= 299

\* the GET comes back: router.push(`/invoice/${intentId}`), or the catch block
LookupResponse ==
    /\ lookupRoute = StatusRoute
    /\ lookupGets.pending
    /\ \E code \in LookupCodes :
          /\ lookupGets' = [lookupGets EXCEPT !.pending = FALSE, !.code = code]
          /\ IF LookupOk(code)
             THEN /\ lookupRoute' = InvoiceRoute(lookupGets.id)
                  /\ UNCHANGED <<lookupLoading, lookupError>>
             ELSE /\ lookupError' = "Invoice not found. Please check the payment intent ID."
                  /\ lookupLoading' = FALSE
                  /\ UNCHANGED lookupRoute
    /\ UNCHANGED lookupId
    /\ UNCHANGED <<displayVars, apiStatus, proxyVars, clientVars, formVars, explorerVars, journeyVars>>

\* the fetch itself fails: the catch block shows the failure's message
LookupFetchFail ==
    /\ lookupRoute = StatusRoute
    /\ lookupGets.pending
    /\ lookupGets' = [lookupGets EXCEPT !.pending = FALSE]
    /\ lookupError' = "fetch failed"
    /\ lookupLoading' = FALSE
    /\ UNCHANGED <<lookupId, lookupRoute>>
    /\ UNCHANGED <<displayVars, apiStatus, proxyVars, clientVars, formVars, explorerVars, journeyVars>>

(***************************************************************************)
(* The explorer link and the network badge of the Display view, as         *)
(* functions of the intent's x402_context.network.  A network string is    *)
(* the sequence of its parts; no part contains another, so a part is a     *)
(* substring of the string exactly when it is one of its parts.            *)
(***************************************************************************)
MaxParts == 3
NetworkParts == {"solana:", "mainnet", "devnet", "-beta", "testnet"}

\* invoice.x402_context?.network: absent, or a string
AbsentNetwork == [present |-> FALSE, parts |-> <<>>]
NetworkString(parts) == [present |-> TRUE, parts |-> parts]
NetworkValues ==
    {AbsentNetwork} \cup
    {NetworkString(p) : p \in UNION {[1..n -> NetworkParts] : n \in 0..MaxParts}}

\* network?.includes(part): undefined, which is falsy, when the network is absent
Includes(network, part) ==
    network.present /\ \E i \in 1..Len(network.parts) : network.parts[i] = part

\* the cluster getExplorerUrl puts in `https://explorer.solana.com/tx/${signature}?cluster=${network}`
getExplorerUrl(network) ==
    IF Includes(network, "devnet") THEN "devnet" ELSE "mainnet-beta"

\* the badge next to the invoice title
NetworkBadge(network) ==
    IF Includes(network, "mainnet") THEN "Mainnet" ELSE "Devnet"

NoExplorer == [network |-> AbsentNetwork, rendered |-> FALSE, cluster |-> "", badge |-> ""]

InitExplorerIdle == explorer = NoExplorer

\* the view renders a paid intent with a receipt
ExplorerRender ==
    /\ ~explorer.rendered
    /\ explorer' = [explorer EXCEPT !.rendered = TRUE,
                                    !.cluster = getExplorerUrl(explorer.network),
                                    !.badge = NetworkBadge(explorer.network)]
    /\ UNCHANGED <<displayVars, apiStatus, proxyVars, clientVars, formVars, lookupVars, journeyVars>>

(***************************************************************************)
(* One invoice from its creation to its display: which API base each step  *)
(* talks to.  The base URL variables of the environment are unset ("") or  *)
(* set to a URL; the browser pages and getDefaultClient read the same      *)
(* environment.                                                            *)
(***************************************************************************)
MaxFetches == 2
BaseUrls == {"", DevnetApiBase, MainnetApiBase, "https://api.example.com"}

\* process.env.X || 'default'
EnvOr(value, default) == IF value # "" THEN value ELSE default

\* the apiBase getDefaultClient selects for a network
ClientApiBase(selectedNetwork, base, mainnetBase) ==
    IF selectedNetwork = "solana:mainnet"
    THEN EnvOr(mainnetBase, MainnetApiBase)
    ELSE EnvOr(base, DevnetApiBase)

\* the apiBase of fetchInvoice and of the Status Lookup's handleSubmit:
\* process.env.NEXT_PUBLIC_SOLPAY_API_BASE || 'https://dev.solpay.cash'
PageApiBase(base) == EnvOr(base, DevnetApiBase)

\* `${apiBase}/pay/${intentId}`
PayUrl(apiBase, id) == apiBase \o "/pay/" \o id

NoJourney ==
    [network |-> "", base |-> "", mainnetBase |-> "", stage |-> "form", id |-> "",
     createdAt |-> "", lookedUpAt |-> "", fetchedAt |-> "", fetches |-> 0,
     payment_url |-> "", derived |-> FALSE]

InitJourneyIdle == journey = NoJourney

\* the form is submitted with the network chosen in it and the proxy creates the
\* intent with the client getDefaultClient(network) returns
JourneyCreate ==
    /\ journey.stage = "form"
    /\ journey' = [journey EXCEPT
                     !.stage = "created",
                     !.id = IntentId,
                     !.createdAt = ClientApiBase(journey.network, journey.base,
                                                 journey.mainnetBase)]
    /\ UNCHANGED <<displayVars, apiStatus, proxyVars, clientVars, formVars, lookupVars, explorerVars>>

\* the identifier is submitted to the Status Lookup page: its pre-check GET
JourneyLookup ==
    /\ journey.stage = "created"
    /\ journey.lookedUpAt = ""
    /\ journey' = [journey EXCEPT !.lookedUpAt = PageApiBase(journey.base)]
    /\ UNCHANGED <<displayVars, apiStatus, proxyVars, clientVars, formVars, lookupVars, explorerVars>>

\* a fetch of the Display view (on mount or by poll) that the API answers 2xx,
\* with a payment_url or without one
JourneyFetch ==
    /\ journey.stage \in {"created", "displayed"}
    /\ journey.fetches < MaxFetches
    /\ \E supplied \in {"", ServerUrl} :
          journey' = [journey EXCEPT
                        !.stage = "displayed",
                        !.fetchedAt = PageApiBase(journey.base),
                        !.fetches = @ + 1,
                        !.payment_url = IF supplied = ""
                                        THEN PayUrl(PageApiBase(journey.base), journey.id)
                                        ELSE supplied,
                        !.derived = (supplied = "")]
    /\ UNCHANGED <<displayVars, apiStatus, proxyVars, clientVars, formVars, lookupVars, explorerVars>>

\* every component at rest but the one a specification is about
InitRest ==
    /\ InitClientIdle
    /\ InitForm
    /\ InitLookup
    /\ InitExplorerIdle
    /\ InitJourneyIdle

\* the proxy before its first request, in any configuration; the view rests
InitProxy ==
    /\ InitDisplay
    /\ InitApi
    /\ env \in Envs
    /\ InitProxyIdle
    /\ InitRest

NextProxy ==
    \/ ProxyReceive
    \/ ProxyUpstreamReply
    \/ ProxyReset

\* the proxy endpoint alone
SpecProxy == InitProxy /\ [][NextProxy]_vars

\* the Invoice Display view alone
Init ==
    /\ InitDisplay
    /\ apiStatus \in Statuses
    /\ env = [wallet |-> "MerchantWallet111", network |-> ""]
    /\ InitProxyIdle
    /\ InitRest

Next ==
    \/ Tick
    \/ ApiAnswerOk
    \/ ApiAnswerFail
    \/ ApiTransition
    \/ FetchResumeOk
    \/ FetchResumeFail
    \/ QrResolve
    \/ QrReject
    \/ Unmount

Spec == Init /\ [][Next]_vars


(***************************************************************************)
(* The Invoice Display view under fair scheduling, for a view that stays   *)
(* mounted and whose fetches all succeed: an active interval fires, the    *)
(* API answers every request, every response is delivered and every QR     *)
(* generation ends.  The API changes the status when it pleases.           *)
(***************************************************************************)
NextLive ==
    \/ Tick
    \/ ApiAnswerOk
    \/ ApiTransition
    \/ FetchResumeOk
    \/ QrResolve
    \/ QrReject

LiveSpec ==
    /\ Init
    /\ [][NextLive]_vars
    /\ WF_vars(Tick)
    /\ WF_vars(ApiAnswerOk)
    /\ WF_vars(FetchResumeOk)
    /\ WF_vars(QrResolve \/ QrReject)

(***************************************************************************)
(* The API client, the Compose Form and the Status Lookup page, each       *)
(* alone, and the explorer link for every network value.                   *)
(***************************************************************************)
\* everything before its first step; the proxy is configured
InitIdle ==
    /\ InitDisplay
    /\ InitApi
    /\ env = [wallet |-> "MerchantWallet111", network |-> ""]
    /\ InitProxyIdle
    /\ InitRest

NextClient ==
    \/ ClientCreate
    \/ ClientGet
    \/ ClientCreateReply
    \/ ClientGetReply
    \/ ClientReset

SpecClient == InitIdle /\ [][NextClient]_vars

NextForm ==
    \/ ClockTick
    \/ addLineItem
    \/ removeLineItem
    \/ updateLineItem
    \/ handleSubmit
    \/ FormResponseOk
    \/ FormResponseFail

SpecForm == InitIdle /\ [][NextForm]_vars

NextLookup ==
    \/ LookupType
    \/ LookupSubmit
    \/ LookupResponse
    \/ LookupFetchFail

SpecLookup == InitIdle /\ [][NextLookup]_vars

\* a paid intent of any network value, about to be rendered
InitExplorer ==
    /\ InitDisplay
    /\ InitApi
    /\ env = [wallet |-> "MerchantWallet111", network |-> ""]
    /\ InitProxyIdle
    /\ InitClientIdle
    /\ InitForm
    /\ InitLookup
    /\ explorer \in {[NoExplorer EXCEPT !.network = n] : n \in NetworkValues}
    /\ InitJourneyIdle

NextExplorer == ExplorerRender

SpecExplorer == InitExplorer /\ [][NextExplorer]_vars

\* an invoice about to be created, for either network, in any configuration
\* of the base URLs
InitJourney ==
    /\ InitDisplay
    /\ InitApi
    /\ env = [wallet |-> "MerchantWallet111", network |-> ""]
    /\ InitProxyIdle
    /\ InitClientIdle
    /\ InitForm
    /\ InitLookup
    /\ InitExplorerIdle
    /\ journey \in {[NoJourney EXCEPT !.network = n, !.base = b, !.mainnetBase = m] :
                      n \in ValidNetworks, b \in BaseUrls, m \in BaseUrls}

NextJourney ==
    \/ JourneyCreate
    \/ JourneyLookup
    \/ JourneyFetch

SpecJourney == InitJourney /\ [][NextJourney]_vars

(***************************************************************************)
(* Properties of the Invoice Display view.                                 *)
(***************************************************************************)
\* the number of fetches in flight
InFlight == BagCardinality(requests)

\* C1: when a poll of a pending intent returns succeeded or completed, the
\* render that stores it leaves no interval set, and while the stored status
\* is succeeded or completed no step issues a fetch.
C1_PaidResponseCancelsTimer ==
    [][/\ (mounted /\ invoice.status = "pending" /\ isPaid(invoice')) => timers' = <<>>
       /\ (mounted /\ isPaid(invoice)) => BagCardinality(requests') <= InFlight]_vars

\* C1 witness: a poll replaced pending by a paid status and no interval is set
C1_Witness ==
    /\ mounted
    /\ prevStatus = "pending"
    /\ isPaid(invoice)
    /\ timers = <<>>

\* C2: displaying-paid is terminal in every interleaving: once a paid status is
\* stored, no later step stores a status that is not paid or sets an interval.
C2_PaidIsTerminal ==
    [][(mounted /\ isPaid(invoice)) => (isPaid(invoice') /\ timers' = <<>>)]_vars

\* C3 as claimed: every stored status other than succeeded and completed is
\* not paid and the poll timer stays active.
C3_NonPaidKeepsPolling ==
    (mounted /\ invoice # NoInvoice) =>
        /\ isPaid(invoice) <=> invoice.status \in PaidStatuses
        /\ ~isPaid(invoice) => timers # <<>>

\* C3 as amended: a stored status is paid exactly when it is succeeded or
\* completed; a status that is not paid keeps the poll timer active only if it
\* is exactly pending, and with any other status no interval is set and no
\* step issues a fetch.
C3_OnlyPendingKeepsPolling ==
    /\ [](invoice # NoInvoice =>
            /\ isPaid(invoice) <=> invoice.status \in PaidStatuses
            /\ (mounted /\ ~isPaid(invoice)) =>
                   (timers # <<>> <=> invoice.status = "pending"))
    /\ [][(mounted /\ invoice # NoInvoice /\ invoice.status # "pending")
             => BagCardinality(requests') <= InFlight]_vars

\* C3 witness: a status that is neither paid nor pending is stored, it shows
\* as not paid, and no interval is set
C3_Witness ==
    /\ mounted
    /\ invoice.status \in {"failed", "processing"}
    /\ ~isPaid(invoice)
    /\ timers = <<>>
    /\ ViewState = "displaying-pending"

\* C4: in a mounted view an interval is set iff the stored status is exactly
\* pending; its period is 5000 ms; a tick issues a fetch and leaves the
\* interval as it is, and nothing but the bound of the model stops a tick.
C4_TimerIffPending ==
    /\ [](mounted => (timers # <<>> <=> invoice.status = "pending"))
    /\ [](\A i \in 1..Len(timers) : timers[i] = PollIntervalMs)
    /\ []((timers # <<>> /\ Outstanding < MaxInFlight) => ENABLED Tick)
    /\ [][Tick => (timers' = timers /\ InFlight' = InFlight + 1)]_vars

\* C4 witness: the status is pending, the interval is set and a tick has
\* issued a fetch after the first load
C4_Witness ==
    /\ mounted
    /\ ~loading
    /\ invoice.status = "pending"
    /\ timers = <<PollIntervalMs>>
    /\ BagIn(SentReq, requests)

\* C5: once a fetch failed the view shows the error from then on, no interval
\* is set and no fetch is issued.
C5_ErrorStopsPolling ==
    /\ []((mounted /\ error # "") => (ViewState = "error" /\ timers = <<>>))
    /\ [][(mounted /\ error # "") => (error' # "" /\ BagCardinality(requests') <= InFlight)]_vars

\* C6: at most one interval is set at any moment, none after teardown, and no
\* fetch is issued after teardown.
C6_AtMostOneTimer ==
    /\ [](Len(timers) <= 1)
    /\ [](~mounted => timers = <<>>)
    /\ [][~mounted => BagCardinality(requests') <= InFlight]_vars

\* C6 witness: the view was torn down while its status was pending and the
\* interval of that poll cycle is gone
C6_Witness ==
    /\ ~mounted
    /\ invoice.status = "pending"
    /\ timers = <<>>

\* C7: if the first fetch stores pending and the API's status becomes
\* succeeded or completed, then from some moment on the view shows paid and
\* no interval is set.
C7_EventuallyPaid ==
    (/\ <>(prevStatus = "undefined" /\ invoice.status = "pending")
     /\ <>(apiStatus \in PaidStatuses))
        => <>[](isPaid(invoice) /\ timers = <<>>)

(***************************************************************************)
(* Properties of the proxy endpoint.                                       *)
(***************************************************************************)
\* the handler has answered 400 and sent nothing to the external API
Rejected400 ==
    /\ pc = "done"
    /\ response.kind = "json"
    /\ response.status = 400
    /\ upstreamReq = NoUpstreamReq

\* createPaymentIntent was called: its POST went to the external API
Delegated == upstreamReq # NoUpstreamReq

IsValidNetwork(v) == v.t = "string" /\ v.s \in ValidNetworks

\* the network of the request, or the configured default
GivenOrDefaultNetwork ==
    IF IsValidNetwork(body.network) THEN body.network.s
    ELSE IF env.network # "" THEN env.network
    ELSE "solana:devnet"

\* C8 as claimed: a request is rejected with 400, nothing sent upstream, iff
\* amount is missing or falsy, or asset is missing or falsy, or network is
\* provided and is not one of the two networks; every other request is
\* delegated to createPaymentIntent for the given or default network (read
\* with a client that can be built, the merchant wallet being configured, and
\* with a null network as not provided).
C8_RejectsIffProvidedNetworkInvalid ==
    (pc # "idle" /\ body.shape = "object") =>
        LET bad == \/ ~Truthy(body.amount)
                   \/ ~Truthy(body.asset)
                   \/ (body.network \notin {Undefined, Null} /\ ~IsValidNetwork(body.network))
        IN /\ Rejected400 <=> bad
           /\ (~bad /\ env.wallet # "") =>
                 (Delegated /\ upstreamReq.network = GivenOrDefaultNetwork)

\* C8 as amended: a request whose body is a JSON object is rejected with 400,
\* nothing sent upstream, iff amount is falsy, or asset is falsy, or network
\* is truthy and is not one of the two networks (a falsy network counts as
\* not provided); every other such request is delegated to
\* createPaymentIntent for the given or default network when the merchant
\* wallet is configured, and ends in 500 with nothing sent upstream when it
\* is not.
C8_RejectsIffTruthyNetworkInvalid ==
    (pc # "idle" /\ body.shape = "object") =>
        LET bad == \/ ~Truthy(body.amount)
                   \/ ~Truthy(body.asset)
                   \/ (Truthy(body.network) /\ ~IsValidNetwork(body.network))
        IN /\ Rejected400 <=> bad
           /\ (~bad /\ env.wallet # "") =>
                 /\ Delegated
                 /\ upstreamReq.network = GivenOrDefaultNetwork
                 /\ upstreamReq.amount = body.amount
                 /\ upstreamReq.currency = body.asset
           /\ (~bad /\ env.wallet = "") =>
                 /\ ~Delegated
                 /\ pc = "done"
                 /\ response.status = 500

\* C8 witness: {amount: 1000000, asset: 'USDC'} with no network field went to
\* the client of the default network
C8_Witness ==
    /\ pc = "awaiting"
    /\ body = BodyObject(Num(1000000), Str("USDC"), Undefined)
    /\ env.network = ""
    /\ upstreamReq.network = "solana:devnet"
    /\ upstreamReq.apiBase = DevnetApiBase

\* an integer strictly greater than 0
IsPositiveInteger(v) == v.t = "number" /\ v.d = 1 /\ v.n > 0

\* C9: every creation request sent to the external API carries an amount that
\* is an integer strictly greater than 0.
C9_UpstreamAmountPositiveInteger ==
    Delegated => IsPositiveInteger(upstreamReq.amount)

\* the external API answered the creation with 2xx and a JSON object
UpstreamSucceeded ==
    /\ upstreamRes.kind = "http"
    /\ upstreamRes.code >= 200 /\ upstreamRes.code <= 299
    /\ upstreamRes.json = "object"

\* a required field is missing or a field is invalid
FieldsInvalid ==
    /\ body.shape = "object"
    /\ \/ ~Truthy(body.amount)
       \/ ~Truthy(body.asset)
       \/ (Truthy(body.network) /\ ~IsValidNetwork(body.network))

\* C10: every request ends in one structured response and no exception leaves
\* the handler: 200 with the PaymentResult exactly when the upstream creation
\* succeeded, 400 with an error exactly for missing or invalid fields, and 500
\* with a non-empty error for every other failure.
C10_StructuredResponse ==
    /\ pc = "done" =>
          /\ response.kind = "json"
          /\ response.status \in {200, 400, 500}
          /\ response.status = 200 <=> UpstreamSucceeded
          /\ response.status = 200 =>
                (response.error = "" /\ response.result.amount.requested = body.amount)
          /\ response.status = 400 <=> FieldsInvalid
          /\ response.status # 200 => (response.error # "" /\ response.result = NoResult)
    /\ pc # "done" => response = NoResponse

\* C10 witness: the external API answered non-2xx and the handler answered 500
\* with the API's message
C10_Witness ==
    /\ pc = "done"
    /\ upstreamRes.kind = "http"
    /\ upstreamRes.code = 500
    /\ upstreamRes.err = "Invalid amount"
    /\ response = JsonError(500, "Invalid amount")

(***************************************************************************)
(* Properties of the API client.                                           *)
(***************************************************************************)
\* a call ended on an HTTP response outside 2xx
EndedNonOk ==
    /\ clientCall.phase = "done"
    /\ clientCall.res.kind = "http"
    /\ ~(clientCall.res.code >= 200 /\ clientCall.res.code <= 299)

\* the call failed and returned no value
FailedWithoutValue ==
    /\ clientCall.threw
    /\ clientCall.result = NoResult
    /\ clientCall.intent = NoIntent

\* the generic message for a status
GenericHttpMessage(code) ==
    CASE code = 404 -> "HTTP 404: Not Found"
      [] code = 500 -> "HTTP 500: Internal Server Error"

\* C11 as claimed: a call of createPaymentIntent or getPaymentIntent that ends on
\* a non-2xx response fails without a value, with the server's error message
\* when the body carries one and with 'HTTP {status}...' otherwise (no error
\* field, or a body that is no JSON).
C11_ServerMessageElseHttpStatus ==
    EndedNonOk =>
        /\ FailedWithoutValue
        /\ clientCall.message =
              IF clientCall.res.json = "object" /\ clientCall.res.err # ""
              THEN clientCall.res.err
              ELSE GenericHttpMessage(clientCall.res.code)

\* C11: a call of createPaymentIntent or getPaymentIntent that ends on a non-2xx
\* response fails without a value; its message is the server's error message
\* when the body is a JSON object with a non-empty error, 'HTTP {status}:
\* {statusText}' when the body is a JSON object without one, 'Unknown error'
\* when the body is no JSON, and the TypeError of reading null when the body is
\* the JSON null.
C11_ServerMessageElseHttpStatusOrUnknown ==
    EndedNonOk =>
        /\ FailedWithoutValue
        /\ clientCall.message =
              CASE clientCall.res.json = "object" /\ clientCall.res.err # "" ->
                      clientCall.res.err
                [] clientCall.res.json = "object" /\ clientCall.res.err = "" ->
                      GenericHttpMessage(clientCall.res.code)
                [] clientCall.res.json = "invalid" -> "Unknown error"
                [] clientCall.res.json = "null" ->
                      "Cannot read properties of null (reading 'error')"

\* C11 witness: getPaymentIntent got a 500 whose body is no JSON and failed with
\* 'Unknown error'
C11_Witness ==
    /\ clientCall.phase = "done"
    /\ clientCall.method = "get"
    /\ clientCall.res.code = 500
    /\ clientCall.res.json = "invalid"
    /\ clientCall.threw
    /\ clientCall.message = "Unknown error"

\* createPaymentIntent returned a result
CreateSucceeded ==
    /\ clientCall.phase = "done"
    /\ clientCall.method = "create"
    /\ ~clientCall.threw

\* the server's value when it supplied one, else the fallback
SuppliedOr(v, fallback) == IF v # Undefined THEN v ELSE fallback

\* the paymentUrl of the result is the server's payment_url or '{apiBase}/pay/{id}'
PaymentUrlOrDerived ==
    clientCall.result.paymentUrl =
        IF clientCall.res.intent.payment_url # <<>>
        THEN clientCall.res.intent.payment_url
        ELSE <<clientCall.req.apiBase, "/pay/", clientCall.res.intent.id>>

\* C12 as claimed: after a successful createPaymentIntent, requested is the
\* input amount; total, fees and net are the server's amount, amount_fees and
\* amount_merchant when supplied (0 included) and the input amount when absent;
\* paymentUrl is the server's payment_url or '{apiBase}/pay/{id}'.
C12_BreakdownFallsBackToInput ==
    CreateSucceeded =>
        /\ clientCall.result.amount.requested = clientCall.req.amount
        /\ clientCall.result.amount.total =
              SuppliedOr(clientCall.res.intent.amount, clientCall.req.amount)
        /\ clientCall.result.amount.fees =
              SuppliedOr(clientCall.res.intent.amount_fees, clientCall.req.amount)
        /\ clientCall.result.amount.net =
              SuppliedOr(clientCall.res.intent.amount_merchant, clientCall.req.amount)
        /\ PaymentUrlOrDerived

\* C12: after a successful createPaymentIntent, requested is the input amount;
\* total and net are the server's amount and amount_merchant when supplied and
\* not 0, and the input amount when absent or 0; fees is the server's
\* amount_fees when supplied and 0 when absent; paymentUrl is the server's
\* payment_url or '{apiBase}/pay/{id}'.
C12_BreakdownFallsBackWhenFalsy ==
    CreateSucceeded =>
        /\ clientCall.result.amount.requested = clientCall.req.amount
        /\ clientCall.result.amount.total =
              IF clientCall.res.intent.amount \in {Undefined, Num(0)}
              THEN clientCall.req.amount ELSE clientCall.res.intent.amount
        /\ clientCall.result.amount.fees =
              SuppliedOr(clientCall.res.intent.amount_fees, Num(0))
        /\ clientCall.result.amount.net =
              IF clientCall.res.intent.amount_merchant \in {Undefined, Num(0)}
              THEN clientCall.req.amount ELSE clientCall.res.intent.amount_merchant
        /\ PaymentUrlOrDerived

\* C12 witness: the server supplied neither fees nor a payment_url and a net of
\* 0; the result has fees 0, net the input amount and the derived URL
C12_Witness ==
    /\ CreateSucceeded
    /\ clientCall.res.intent.amount_fees = Undefined
    /\ clientCall.res.intent.amount_merchant = Num(0)
    /\ clientCall.res.intent.payment_url = <<>>
    /\ clientCall.result.amount.fees = Num(0)
    /\ clientCall.result.amount.net = clientCall.req.amount
    /\ clientCall.result.paymentUrl = <<MainnetApiBase, "/pay/", "pi_1">>

(***************************************************************************)
(* The merchant wallet of the proxy's client.                              *)
(***************************************************************************)
\* C13: with the merchant wallet unset or empty, a request that passes
\* validation ends in the configuration error and nothing is sent to the
\* external API; every POST sent to the external API carries a non-empty
\* merchant_wallet and a non-empty x-merchant-wallet header.
C13_NoEmptyMerchantWallet ==
    /\ Delegated =>
          /\ upstreamReq.merchant_wallet # ""
          /\ upstreamReq.x_merchant_wallet # ""
          /\ upstreamReq.merchant_wallet = env.wallet
    /\ (pc = "done" /\ env.wallet = "" /\ body.shape = "object" /\ ~FieldsInvalid) =>
          /\ ~Delegated
          /\ response.status = 500
          /\ response.error = "NEXT_PUBLIC_MERCHANT_WALLET environment variable is not set"

\* C13 witness: a valid request came in while the wallet is unset and was
\* answered with the configuration error
C13_Witness ==
    /\ pc = "done"
    /\ env.wallet = ""
    /\ body = BodyObject(Num(1000000), Str("USDC"), Str("solana:mainnet"))
    /\ ~Delegated
    /\ response = JsonError(500, "NEXT_PUBLIC_MERCHANT_WALLET environment variable is not set")

(***************************************************************************)
(* Properties of the Compose Form.                                         *)
(***************************************************************************)
\* the list is empty or every description in it is empty
AllDescriptionsEmpty(items) == \A i \in DOMAIN items : items[i].description = ""

\* the submission sent nothing and the form is enabled again, showing message
FailedBeforeSending(message) ==
    /\ formError' = message
    /\ formLoading' = FALSE
    /\ formSent' = 0
    /\ formReq' = NoFormReq
    /\ formRoute' = formRoute

\* C14: a submission of a list that is empty or has only empty descriptions
\* fails with 'Please add at least one line item'; otherwise a submission of a
\* list whose subtotal is <= 0 fails with 'Invoice total must be greater than
\* 0'; in both cases no request is sent and the form is enabled again with the
\* error shown.
C14_ValidationInOrder ==
    [][handleSubmit =>
          IF AllDescriptionsEmpty(lineItems)
          THEN FailedBeforeSending("Please add at least one line item")
          ELSE IF calculateSubtotal(lineItems) <= 0
          THEN FailedBeforeSending("Invoice total must be greater than 0")
          ELSE formSent' = 1]_vars

\* C14 witness: a list that fails both checks was submitted and the form shows
\* the error of the first, enabled, with nothing sent
C14_Witness ==
    /\ Len(lineItems) = 2
    /\ AllDescriptionsEmpty(lineItems)
    /\ calculateSubtotal(lineItems) < 0
    /\ formError = "Please add at least one line item"
    /\ ~formLoading
    /\ formSent = 0

\* a is x rounded to the nearest integer, a half rounded up, for x = n / d
IsRounded(a, n, d) == 2 * (a * d - n) <= d /\ 2 * (n - a * d) < d

\* C15: a submission of a list with a non-empty description and a subtotal > 0
\* sends exactly one request, whose amount is the integer
\* round(subtotal x 1000000).
C15_AmountIsRoundedMicroUnits ==
    [][(handleSubmit /\ ~AllDescriptionsEmpty(lineItems) /\ calculateSubtotal(lineItems) > 0) =>
          /\ formSent' = 1
          /\ formLoading'
          /\ formReq'.amount \in Int
          /\ IsRounded(formReq'.amount, calculateSubtotal(lineItems) * MicroUnits, PriceScale)]_vars

\* C15 witness: a subtotal of one and a half microunits was submitted and one
\* request with the amount 2 is in flight
C15_Witness ==
    /\ formLoading
    /\ formRoute = "/"
    /\ formSent = 1
    /\ formReq # NoFormReq
    /\ calculateSubtotal(lineItems) = 3
    /\ formReq.amount = 2

\* C19: the ids of the line items in the list are pairwise distinct.
C19_IdsPairwiseDistinct ==
    \A i, j \in 1..Len(lineItems) : i # j => lineItems[i].id # lineItems[j].id

\* the described items of the list, in list order, without their ids
RECURSIVE DescribedWithoutIds(_)
DescribedWithoutIds(items) ==
    IF items = <<>> THEN <<>>
    ELSE IF Head(items).description = "" THEN DescribedWithoutIds(Tail(items))
    ELSE <<[description |-> Head(items).description,
            quantity |-> Head(items).quantity,
            price |-> Head(items).price]>> \o DescribedWithoutIds(Tail(items))

\* C20: the line_items of a request the form sent are the list's items with a
\* non-empty description, in list order, each consisting of exactly
\* description, quantity and price.
C20_LineItemsCarryNoId ==
    formReq # NoFormReq =>
        /\ \A i \in DOMAIN formReq.line_items :
              DOMAIN formReq.line_items[i] = {"description", "quantity", "price"}
        /\ formReq.line_items = DescribedWithoutIds(lineItems)

(***************************************************************************)
(* Properties of the Status Lookup page.                                   *)
(***************************************************************************)
\* the identifier starts with 'pi_'
HasPiPrefix(id) == Len(id) >= 3 /\ id[1] = "p" /\ id[2] = "i" /\ id[3] = "_"

Is2xx(code) == code \in 200..299

\* C16: a submission of an identifier that does not start with 'pi_' issues no
\* GET and fails at once with 'Invalid payment intent ID...'; any other
\* submission issues exactly one GET, and when that GET ends no further GET
\* is issued, the page redirects to the Display view of the submitted
\* identifier iff the GET returned 2xx, and a non-2xx response fails with
\* 'Invoice not found...'.
C16_LookupPrecheck ==
    [][/\ LookupSubmit =>
             IF ~HasPiPrefix(lookupId)
             THEN /\ lookupGets'.count = 0
                  /\ ~lookupGets'.pending
                  /\ lookupError' = "Invalid payment intent ID. It should start with \"pi_\""
                  /\ ~lookupLoading'
                  /\ lookupRoute' = StatusRoute
             ELSE /\ lookupGets'.count = 1
                  /\ lookupGets'.pending
                  /\ lookupGets'.id = lookupId
                  /\ lookupRoute' = StatusRoute
       /\ (lookupGets.pending /\ ~lookupGets'.pending) =>
             /\ lookupGets'.count = 1
             /\ lookupRoute' # StatusRoute <=> Is2xx(lookupGets'.code)
             /\ Is2xx(lookupGets'.code) => lookupRoute' = InvoiceRoute(lookupGets.id)
             /\ (lookupGets'.code # 0 /\ ~Is2xx(lookupGets'.code)) =>
                   /\ lookupError' = "Invoice not found. Please check the payment intent ID."
                   /\ ~lookupLoading'
       /\ lookupRoute' # lookupRoute => (lookupGets.pending /\ ~lookupGets'.pending)]_vars

\* C16 witness: the GET for pi_1 came back 204 and the page redirected to the
\* Display view of pi_1
C16_Witness ==
    /\ lookupGets = [count |-> 1, pending |-> FALSE, id |-> <<"p", "i", "_", "1">>, code |-> 204]
    /\ lookupRoute = InvoiceRoute(<<"p", "i", "_", "1">>)

(***************************************************************************)
(* Properties of the explorer link and of QR generation.                   *)
(***************************************************************************)
\* the network string is there and contains 'mainnet'
ContainsMainnet(network) ==
    network.present /\ "mainnet" \in {network.parts[i] : i \in DOMAIN network.parts}

\* C17: for every network value, the explorer link uses the cluster
\* 'mainnet-beta' when the network string contains 'mainnet' and 'devnet'
\* otherwise.
C17_ClusterFollowsMainnet ==
    explorer.rendered =>
        explorer.cluster =
            IF ContainsMainnet(explorer.network) THEN "mainnet-beta" ELSE "devnet"

\* C18: every successful fetch starts one QR generation for the payment_url it
\* got; a failed QR generation changes neither the error state, the loading
\* flag, the stored intent, the timers nor the QR image, so the screen shown
\* stays the same; and the QR image is set by a successful generation only.
C18_QrFailureIsNonFatal ==
    [][/\ FetchResumeOk => BagCardinality(qrJobs') = BagCardinality(qrJobs) + 1
       /\ QrReject =>
             /\ error' = error
             /\ loading' = loading
             /\ invoice' = invoice
             /\ timers' = timers
             /\ requests' = requests
             /\ qrCodeUrl' = qrCodeUrl
             /\ ViewState' = ViewState
       /\ qrCodeUrl' # qrCodeUrl => QrResolve]_vars

\* C18 witness: the view shows a pending invoice without error while every QR
\* generation so far has failed: the image is missing and the timer runs
C18_Witness ==
    /\ mounted
    /\ ViewState = "displaying-pending"
    /\ invoice.status = "pending"
    /\ qrJobs = EmptyBag
    /\ requests = EmptyBag
    /\ qrCodeUrl = NoQr
    /\ error = ""
    /\ Len(timers) = 1
(***************************************************************************)
(* Properties across the pages.                                            *)
(***************************************************************************)
\* C21: for an intent created through the proxy for a network, the pre-check of
\* the Status Lookup, every fetch of the Display view and the payment URL the
\* Display view derives, '{apiBase}/pay/{id}', use the API base the intent was
\* created at.
C21_OneApiBasePerInvoice ==
    journey.stage # "form" =>
        /\ journey.lookedUpAt # "" => journey.lookedUpAt = journey.createdAt
        /\ journey.fetchedAt # "" => journey.fetchedAt = journey.createdAt
        /\ journey.derived =>
              journey.payment_url = journey.createdAt \o "/pay/" \o journey.id

\* the sum of quantity x price over the entries, in half microunits
RECURSIVE SumOfEntries(_)
SumOfEntries(entries) ==
    IF entries = <<>> THEN 0
    ELSE Head(entries).quantity * Head(entries).price + SumOfEntries(Tail(entries))

\* C22: the amount of every request the form sends is round(1000000 x the sum
\* of quantity x price over the line_items of that request).
C22_AmountAgreesWithLineItems ==
    formReq # NoFormReq =>
        IsRounded(formReq.amount, SumOfEntries(formReq.line_items) * MicroUnits, PriceScale)

=============================================================================
